---------------------------- MODULE Spec2Model ----------------------------
(***************************************************************************)
(* The product catalogue service of main.py: seeding of the "product"      *)
(* collection (ensure_seed_data), the list endpoint with its category and  *)
(* search filters (list_products), the read endpoint (get_product), the    *)
(* serialization of raw documents (serialize_product) and the static       *)
(* fallback used when the database module exports no handle.              *)
(*                                                                         *)
(* Strings that take part in pattern matching (name, description,          *)
(* category, tags, the category and q parameters) are sequences of         *)
(* one-character strings.  The em dash of the product names is written "-".*)
(* Prices are whole numbers (49.0 is 49).                                  *)
(***************************************************************************)
EXTENDS Integers, Sequences, FiniteSets

\* ------------------------------------------------------------------ bounds
\* Number of request handlers that may run at the same time.
NumProcs == 2
\* Number of requests (list, get or direct seeding calls) issued in a run.
MaxRequests == 3
\* Number of documents another writer adds to the collection in a run.
MaxExternal == 1

Procs == 1..NumProcs

\* -------------------------------------------------------- program constants
\* .limit(48) of list_products
Limit == 48

\* Python's None (distinct from every string of the model)
None == <<"<None>">>

\* The database handle that the database module exports when it is configured
Database == <<"<Database>">>

\* bool(x) of an Optional[str]: None and "" are false
Truthy(x) == x # None /\ x # <<>>

\* main.py line 79
TeeName ==
  <<"C","T","R","L","-","Z"," ","O","v","e","r","s","i","z","e","d"," ","T",
    "e","e"," ","-"," ","N","e","o","n"," ","G","r","i","d">>
\* main.py line 80
TeeDescription ==
  <<"H","e","a","v","y","w","e","i","g","h","t"," ","c","o","t","t","o","n",
    " ","t","e","e"," ","w","i","t","h"," ","n","e","o","n"," ","c","y","a",
    "n"," ","g","l","i","t","c","h"," ","p","r","i","n","t",".">>
\* main.py line 94
CargoName ==
  <<"C","T","R","L","-","Z"," ","T","e","c","h"," ","C","a","r","g","o"," ",
    "-"," ","M","i","d","n","i","g","h","t">>
\* main.py line 95
CargoDescription ==
  <<"W","a","t","e","r","-","r","e","s","i","s","t","a","n","t"," ","t","e",
    "c","h"," ","c","a","r","g","o","s"," ","w","i","t","h"," ","m","a","g",
    "n","e","t","i","c"," ","c","l","o","s","u","r","e","s",".">>
\* main.py line 109
HoodieName ==
  <<"C","T","R","L","-","Z"," ","C","r","o","p","p","e","d"," ","H","o","o",
    "d","i","e"," ","-"," ","C","r","i","m","s","o","n"," ","P","u","l","s",
    "e">>
\* main.py line 110
HoodieDescription ==
  <<"F","l","e","e","c","e"," ","c","r","o","p","p","e","d"," ","h","o","o",
    "d","i","e"," ","w","i","t","h"," ","c","r","i","m","s","o","n"," ","p",
    "u","l","s","e"," ","e","m","b","r","o","i","d","e","r","y",".">>

Unisex == <<"U","n","i","s","e","x">>
Men == <<"M","e","n">>
Women == <<"W","o","m","e","n">>

TeeTags ==
  << <<"g","l","i","t","c","h">>, <<"o","v","e","r","s","i","z","e","d">>,
     <<"c","o","r","e">> >>
CargoTags == << <<"t","e","c","h","w","e","a","r">>, <<"c","a","r","g","o">> >>
HoodieTags == << <<"c","r","o","p","p","e","d">>, <<"h","o","o","d","i","e">> >>

TeeImages ==
  <<"https://images.unsplash.com/photo-1520975661595-6453be3f7070?q=80&w=1200&auto=format&fit=crop",
    "https://images.unsplash.com/photo-1548883354-94bcfe321cce?q=80&w=1200&auto=format&fit=crop",
    "https://images.unsplash.com/photo-1520974735194-6c0a6b4a37d1?q=80&w=1200&auto=format&fit=crop">>
CargoImages ==
  <<"https://images.unsplash.com/photo-1543087903-1ac2ec7aa8c5?q=80&w=1200&auto=format&fit=crop",
    "https://images.unsplash.com/photo-1544025162-d76694265947?q=80&w=1200&auto=format&fit=crop",
    "https://images.unsplash.com/photo-1519741497674-611481863552?q=80&w=1200&auto=format&fit=crop">>
HoodieImages ==
  <<"https://images.unsplash.com/photo-1517649763962-0c623066013b?q=80&w=1200&auto=format&fit=crop",
    "https://images.unsplash.com/photo-1488188840666-e2308741a62f?q=80&w=1200&auto=format&fit=crop",
    "https://images.unsplash.com/photo-1520975661595-6453be3f7070?q=80&w=1200&auto=format&fit=crop">>

\* ProductModel.sizes default_factory
DefaultSizes == <<"XS", "S", "M", "L", "XL", "XXL">>

\* The three documents of ensure_seed_data, before the driver gives them an _id.
seed_two ==
  << [name |-> TeeName, description |-> TeeDescription, price |-> 49,
      category |-> Unisex, subcategory |-> "Tees",
      sizes |-> <<"XS", "S", "M", "L", "XL", "XXL">>, images |-> TeeImages,
      stock |-> 120, tags |-> TeeTags],
     [name |-> CargoName, description |-> CargoDescription, price |-> 89,
      category |-> Men, subcategory |-> "Cargo Pants",
      sizes |-> <<"S", "M", "L", "XL">>, images |-> CargoImages,
      stock |-> 60, tags |-> CargoTags] >>

seed ==
  << [name |-> TeeName, description |-> TeeDescription, price |-> 49,
      category |-> Unisex, subcategory |-> "Tees",
      sizes |-> <<"XS", "S", "M", "L", "XL", "XXL">>, images |-> TeeImages,
      stock |-> 120, tags |-> TeeTags],
     [name |-> CargoName, description |-> CargoDescription, price |-> 89,
      category |-> Men, subcategory |-> "Cargo Pants",
      sizes |-> <<"S", "M", "L", "XL">>, images |-> CargoImages,
      stock |-> 60, tags |-> CargoTags],
     [name |-> HoodieName, description |-> HoodieDescription, price |-> 79,
      category |-> Women, subcategory |-> "Hoodies",
      sizes |-> <<"XS", "S", "M", "L">>, images |-> HoodieImages,
      stock |-> 40, tags |-> HoodieTags] >>

\* `if db["product"].count_documents({}) == 0`
needs_seed_always(count) == TRUE

needs_seed(count) == count = 0

\* `except Exception: pass` of ensure_seed_data: what happens to an exception
\* raised by the count or the insert.
seed_except_raise == "raise"

seed_except == "pass"

\* ------------------------------------------------- documents of other writers
\* A document that a writer other than this service may have put into the
\* collection: it has only the required fields of the Product Entity.
ExternalDocs ==
  { [name |-> <<"C","a","p">>, description |-> <<"P","l","a","i","n">>,
     price |-> 15, category |-> <<"M","e","n","s","w","e","a","r">>] }

\* ------------------------------------------------------------- identifiers
\* str(ObjectId): the external string of identifier n
OidStr(n) == <<"oid", n>>

\* bson.ObjectId.is_valid: whether ObjectId(s) succeeds
IsValidOid(s) == Len(s) = 2 /\ s[1] = "oid"

\* ObjectId(s) for a valid s
ParseOid(s) == s[2]

\* ---------------------------------------------------------- serialization
\* dict.get(key, default)
DocGet(doc, key, default) == IF key \in DOMAIN doc THEN doc[key] ELSE default

\* serialize_product
serialize_product(doc) ==
  [id |-> OidStr(DocGet(doc, "_id", None)),
   name |-> DocGet(doc, "name", None),
   description |-> DocGet(doc, "description", None),
   price |-> DocGet(doc, "price", None),
   category |-> DocGet(doc, "category", None),
   subcategory |-> DocGet(doc, "subcategory", None),
   sizes |-> DocGet(doc, "sizes", <<>>),
   images |-> DocGet(doc, "images", <<>>),
   stock |-> DocGet(doc, "stock", 0),
   tags |-> DocGet(doc, "tags", <<>>)]

\* The fallback list of list_products, its _id a fresh ObjectId()
fallback_cargo(oid) ==
  << [_id |-> oid, name |-> CargoName, description |-> CargoDescription,
      price |-> 89, category |-> Men, subcategory |-> "Cargo Pants",
      sizes |-> <<"S", "M", "L", "XL">>, images |-> CargoImages,
      stock |-> 60, tags |-> CargoTags] >>

fallback(oid) ==
  << [_id |-> oid, name |-> TeeName, description |-> TeeDescription,
      price |-> 49, category |-> Unisex, subcategory |-> "Tees",
      sizes |-> <<"XS", "S", "M", "L", "XL", "XXL">>, images |-> TeeImages,
      stock |-> 120, tags |-> TeeTags] >>

\* The fallback ProductOut of get_product, its id str(ObjectId())
fallback_product_fixed(oid) ==
  [id |-> OidStr(0), name |-> TeeName, description |-> TeeDescription,
   price |-> 49, category |-> Unisex, subcategory |-> "Tees",
   sizes |-> <<"XS", "S", "M", "L", "XL", "XXL">>, images |-> TeeImages,
   stock |-> 120, tags |-> TeeTags]

fallback_product(oid) ==
  [id |-> OidStr(oid), name |-> TeeName, description |-> TeeDescription,
   price |-> 49, category |-> Unisex, subcategory |-> "Tees",
   sizes |-> <<"XS", "S", "M", "L", "XL", "XXL">>, images |-> TeeImages,
   stock |-> 120, tags |-> TeeTags]

\* ------------------------------------------------------- pattern matching
\* The $regex operator with $options "i", for patterns made of literal
\* characters, "." (any character), a leading "^" and a trailing "$".
LowerMap ==
  [A |-> "a", B |-> "b", C |-> "c", D |-> "d", E |-> "e", F |-> "f",
   G |-> "g", H |-> "h", I |-> "i", J |-> "j", K |-> "k", L |-> "l",
   M |-> "m", N |-> "n", O |-> "o", P |-> "p", Q |-> "q", R |-> "r",
   S |-> "s", T |-> "t", U |-> "u", V |-> "v", W |-> "w", X |-> "x",
   Y |-> "y", Z |-> "z"]

Lower(c) == IF c \in DOMAIN LowerMap THEN LowerMap[c] ELSE c

CharMatch(p, c) == p = "." \/ Lower(p) = Lower(c)

RegexSearch(pattern, s) ==
  LET atStart == Len(pattern) > 0 /\ pattern[1] = "^"
      rest == IF atStart THEN Tail(pattern) ELSE pattern
      atEnd == Len(rest) > 0 /\ rest[Len(rest)] = "$"
      core == IF atEnd THEN SubSeq(rest, 1, Len(rest) - 1) ELSE rest
  IN  \E i \in 1..(Len(s) - Len(core) + 1) :
        /\ atStart => i = 1
        /\ atEnd => i + Len(core) - 1 = Len(s)
        /\ \A k \in 1..Len(core) : CharMatch(core[k], s[i + k - 1])

\* {field: {"$regex": pattern, "$options": "i"}} on a string field or on an
\* array of strings (any element); a document without the field does not match
FieldRegex(doc, field, pattern) ==
  /\ field \in DOMAIN doc
  /\ IF field = "tags"
       THEN \E j \in 1..Len(doc[field]) : RegexSearch(pattern, doc[field][j])
       ELSE RegexSearch(pattern, doc[field])

\* filter_obj of list_products
filter_obj(category, q) ==
  [category |-> IF Truthy(category) THEN <<"^">> \o category \o <<"$">> ELSE None,
   or |-> IF Truthy(q) THEN <<q, q, q>> ELSE None]

\* Whether a document satisfies filter_obj
Matches(doc, f) ==
  /\ f.category # None => FieldRegex(doc, "category", f.category)
  /\ f.or # None =>
       \/ FieldRegex(doc, "name", f.or[1])
       \/ FieldRegex(doc, "description", f.or[2])
       \/ FieldRegex(doc, "tags", f.or[3])

\* ------------------------------------------------------------ the collection
RECURSIVE SelectDocs(_, _)
SelectDocs(docs, f) ==
  IF docs = <<>> THEN <<>>
  ELSE (IF Matches(Head(docs), f) THEN <<Head(docs)>> ELSE <<>>)
         \o SelectDocs(Tail(docs), f)

Prefix(s, n) == IF Len(s) <= n THEN s ELSE SubSeq(s, 1, n)

\* db["product"].count_documents({})
count_documents(coll) == Len(coll)

\* db["product"].insert_many(docs): every document gets a fresh _id and the
\* batch is appended
insert_many(coll, docs, firstOid) ==
  coll \o [i \in 1..Len(docs) |->
             [k \in DOMAIN docs[i] \cup {"_id"} |->
                IF k = "_id" THEN firstOid + i - 1 ELSE docs[i][k]]]

\* db["product"].find(f).limit(n), in insertion order
find(coll, f, n) == Prefix(SelectDocs(coll, f), n)

\* db["product"].find_one({"_id": oid}): the document or None
find_one(coll, oid) ==
  IF \E i \in 1..Len(coll) : coll[i]._id = oid
    THEN coll[CHOOSE i \in 1..Len(coll) : coll[i]._id = oid]
    ELSE None

\* ------------------------------------------------------------------- state
VARIABLES
  db,        \* `db` of the database module: None or Database; fixed at import
  live,      \* whether the server behind the handle answers; operations raise otherwise
  store,     \* the documents of db["product"], in insertion order
  nextOid,   \* the next ObjectId the process generates
  pc,        \* per request handler: "idle", "seed", "seed_insert" or "list"
  req,       \* per request handler: the request it handles or handled last
  resp,      \* per request handler: the response to that request (status 0: none yet)
  started,   \* requests issued so far
  external,  \* documents added by other writers so far
  hist       \* history: the collection's initial size, whether ensure_seed_data
             \* caught an exception, and per handler the collection's size when its
             \* request began, whether the request used the collection, and whether
             \* its get request met a reachable collection without the requested id

vars == <<db, live, store, nextOid, pc, req, resp, started, external, hist>>

\* ----------------------------------------------------------- request inputs
\* Values of the category parameter
Categories == {None, <<"m","e","n">>, <<"M",".","n">>}

\* Values of the q parameter
Queries == {None, <<"C","A","R","G","O">>, <<"c",".","t">>}

\* Values of the product_id path parameter
ProductIds == {OidStr(0), OidStr(1), <<"not-a-valid-id">>}

NoRequest == [kind |-> "none", category |-> None, q |-> None, product_id |-> None]

NoResponse == [status |-> 0, body |-> <<>>, detail |-> ""]

\* A collection that existed before the process started
InitialStores == {<<>>, insert_many(<<>>, <<CHOOSE d \in ExternalDocs : "tags" \notin DOMAIN d>>, 0)}

Init ==
  /\ db \in {None, Database}
  /\ live = TRUE
  /\ store \in (IF db = None THEN {<<>>} ELSE InitialStores)
  /\ nextOid = Len(store)
  /\ pc = [p \in Procs |-> "idle"]
  /\ req = [p \in Procs |-> NoRequest]
  /\ resp = [p \in Procs |-> NoResponse]
  /\ started = 0
  /\ external = 0
  /\ hist = [initCount |-> Len(store), seedRaised |-> FALSE,
             entry |-> [p \in Procs |-> 0], touched |-> [p \in Procs |-> FALSE],
             absent |-> [p \in Procs |-> FALSE]]

\* database_available()
database_available == db # None

\* HTTP responses
Ok(views) == [status |-> 200, body |-> views, detail |-> ""]

HTTPException(status_code, detail) == [status |-> status_code, body |-> <<>>, detail |-> detail]

\* What the framework answers when a handler lets an exception escape
InternalServerError == [status |-> 500, body |-> <<>>, detail |-> "Internal Server Error"]

Touch(p) == [hist EXCEPT !.touched[p] = TRUE]

\* ---------------------------------------------------------------- requests
\* GET /api/products arrives: list_products begins with ensure_seed_data()
StartList(p, category, q) ==
  /\ pc[p] = "idle"
  /\ started < MaxRequests
  /\ started' = started + 1
  /\ pc' = [pc EXCEPT ![p] = "seed"]
  /\ req' = [req EXCEPT ![p] = [kind |-> "list", category |-> category, q |-> q,
                                product_id |-> None]]
  /\ resp' = [resp EXCEPT ![p] = NoResponse]
  /\ hist' = [hist EXCEPT !.entry[p] = Len(store), !.touched[p] = FALSE]
  /\ UNCHANGED <<db, live, store, nextOid, external>>

\* ensure_seed_data() called on its own
StartSeed(p) ==
  /\ pc[p] = "idle"
  /\ started < MaxRequests
  /\ started' = started + 1
  /\ pc' = [pc EXCEPT ![p] = "seed"]
  /\ req' = [req EXCEPT ![p] = [kind |-> "seed", category |-> None, q |-> None,
                                product_id |-> None]]
  /\ resp' = [resp EXCEPT ![p] = NoResponse]
  /\ hist' = [hist EXCEPT !.entry[p] = Len(store), !.touched[p] = FALSE]
  /\ UNCHANGED <<db, live, store, nextOid, external>>

\* Where control goes when ensure_seed_data returns
AfterSeed(p) == IF req[p].kind = "seed" THEN "idle" ELSE "list"

\* ensure_seed_data leaves through its except clause
SeedExcept(p) ==
  /\ hist' = [hist EXCEPT !.seedRaised = TRUE, !.touched[p] = TRUE]
  /\ IF seed_except = "pass"
       THEN /\ pc' = [pc EXCEPT ![p] = AfterSeed(p)]
            /\ UNCHANGED resp
       ELSE /\ pc' = [pc EXCEPT ![p] = "idle"]
            /\ resp' = [resp EXCEPT ![p] = InternalServerError]

\* ensure_seed_data up to the emptiness check
SeedCheck(p) ==
  /\ pc[p] = "seed"
  /\ IF db = None
       THEN /\ pc' = [pc EXCEPT ![p] = AfterSeed(p)]
            /\ UNCHANGED <<resp, hist>>
       ELSE IF ~live
         THEN SeedExcept(p)
         ELSE /\ pc' = [pc EXCEPT ![p] =
                     IF needs_seed(count_documents(store)) THEN "seed_insert"
                     ELSE AfterSeed(p)]
              /\ hist' = Touch(p)
              /\ UNCHANGED resp
  /\ UNCHANGED <<db, live, store, nextOid, req, started, external>>

\* ensure_seed_data: db["product"].insert_many(seed)
SeedInsert(p) ==
  /\ pc[p] = "seed_insert"
  /\ IF ~live
       THEN /\ SeedExcept(p)
            /\ UNCHANGED <<store, nextOid>>
       ELSE /\ store' = insert_many(store, seed, nextOid)
            /\ nextOid' = nextOid + Len(seed)
            /\ pc' = [pc EXCEPT ![p] = AfterSeed(p)]
            /\ hist' = Touch(p)
            /\ UNCHANGED resp
  /\ UNCHANGED <<db, live, req, started, external>>

\* list_products after ensure_seed_data
ListRespond(p) ==
  /\ pc[p] = "list"
  /\ pc' = [pc EXCEPT ![p] = "idle"]
  /\ IF database_available
       THEN /\ hist' = Touch(p)
            /\ UNCHANGED nextOid
            /\ resp' = [resp EXCEPT ![p] =
                 IF live
                   THEN LET docs == find(store, filter_obj(req[p].category, req[p].q), Limit)
                        IN  Ok([i \in 1..Len(docs) |-> serialize_product(docs[i])])
                   ELSE InternalServerError]
       ELSE /\ LET docs == fallback(nextOid)
               IN  resp' = [resp EXCEPT ![p] =
                              Ok([i \in 1..Len(docs) |-> serialize_product(docs[i])])]
            /\ nextOid' = nextOid + 1
            /\ UNCHANGED hist
  /\ UNCHANGED <<db, live, store, req, started, external>>

\* The collection can be reached, product_id is a well-formed identifier and no
\* stored document has it
AbsentFrom(product_id) ==
  /\ db # None
  /\ live
  /\ IsValidOid(product_id)
  /\ \A i \in 1..Len(store) : store[i]._id # ParseOid(product_id)

\* The try block of get_product: the value returned or the exception raised
GetTry(product_id) ==
  IF ~IsValidOid(product_id) THEN [raised |-> "InvalidId"]
  ELSE IF ~live THEN [raised |-> "ServerSelectionTimeoutError"]
  ELSE LET doc == find_one(store, ParseOid(product_id))
       IN  IF doc = None
             THEN [raised |-> "HTTPException", response |-> HTTPException(404, "Product not found")]
             ELSE [returned |-> Ok(<<serialize_product(doc)>>)]

\* try ... except Exception: raise HTTPException(400) of get_product
GetCatch(outcome) ==
  IF "raised" \in DOMAIN outcome
    THEN HTTPException(400, "Invalid product id")
    ELSE outcome.returned

\* GET /api/products/{product_id}
GetProduct(p, product_id) ==
  /\ pc[p] = "idle"
  /\ started < MaxRequests
  /\ started' = started + 1
  /\ req' = [req EXCEPT ![p] = [kind |-> "get", category |-> None, q |-> None,
                                product_id |-> product_id]]
  /\ hist' = [hist EXCEPT !.entry[p] = Len(store),
                          !.touched[p] = database_available /\ IsValidOid(product_id),
                          !.absent[p] = AbsentFrom(product_id)]
  /\ IF database_available
       THEN /\ resp' = [resp EXCEPT ![p] = GetCatch(GetTry(product_id))]
            /\ UNCHANGED nextOid
       ELSE /\ resp' = [resp EXCEPT ![p] = Ok(<<fallback_product(nextOid)>>)]
            /\ nextOid' = nextOid + 1
  /\ UNCHANGED <<db, live, store, pc, external>>

\* ------------------------------------------------------------- environment
\* Another writer inserts a document
ExternalInsert(d) ==
  /\ db # None
  /\ live
  /\ external < MaxExternal
  /\ external' = external + 1
  /\ store' = insert_many(store, <<d>>, nextOid)
  /\ nextOid' = nextOid + 1
  /\ UNCHANGED <<db, live, pc, req, resp, started, hist>>

\* The connection to the server is lost
ConnectionLost ==
  /\ db # None
  /\ live
  /\ live' = FALSE
  /\ UNCHANGED <<db, store, nextOid, pc, req, resp, started, external, hist>>

\* The connection to the server is back
ConnectionRestored ==
  /\ db # None
  /\ ~live
  /\ live' = TRUE
  /\ UNCHANGED <<db, store, nextOid, pc, req, resp, started, external, hist>>

\* ------------------------------------------------------------ specifications
Next ==
  \/ \E p \in Procs, category \in Categories, q \in Queries : StartList(p, category, q)
  \/ \E p \in Procs : StartSeed(p)
  \/ \E p \in Procs : SeedCheck(p)
  \/ \E p \in Procs : SeedInsert(p)
  \/ \E p \in Procs : ListRespond(p)
  \/ \E p \in Procs, product_id \in ProductIds : GetProduct(p, product_id)
  \/ \E d \in ExternalDocs : ExternalInsert(d)
  \/ ConnectionLost
  \/ ConnectionRestored

Spec == Init /\ [][Next]_vars

\* The database module exports no handle (db is None): degraded mode
InitDegraded == Init /\ db = None

NextDegraded ==
  \/ \E p \in Procs, category \in Categories, q \in Queries : StartList(p, category, q)
  \/ \E p \in Procs : StartSeed(p)
  \/ \E p \in Procs : SeedCheck(p)
  \/ \E p \in Procs : ListRespond(p)
  \/ \E p \in Procs, product_id \in ProductIds : GetProduct(p, product_id)

SpecDegraded == InitDegraded /\ [][NextDegraded]_vars

AllIdle == \A p \in Procs : pc[p] = "idle"

\* A working database, no other writer, one call at a time
InitSeq == Init /\ db = Database

NextSeq ==
  \/ \E p \in Procs, category \in Categories, q \in Queries :
        AllIdle /\ StartList(p, category, q)
  \/ \E p \in Procs : AllIdle /\ StartSeed(p)
  \/ \E p \in Procs : SeedCheck(p)
  \/ \E p \in Procs : SeedInsert(p)
  \/ \E p \in Procs : ListRespond(p)

SpecSeq == InitSeq /\ [][NextSeq]_vars

\* A working database with an empty collection, no other writer, concurrent
\* list requests (with or without a category) and seeding calls
InitConc == Init /\ db = Database /\ store = <<>>

NextConc ==
  \/ \E p \in Procs, category \in {None, Men} : StartList(p, category, None)
  \/ \E p \in Procs : StartSeed(p)
  \/ \E p \in Procs : SeedCheck(p)
  \/ \E p \in Procs : SeedInsert(p)
  \/ \E p \in Procs : ListRespond(p)

SpecConc == InitConc /\ [][NextConc]_vars

\* A database whose connection comes and goes, no other writer, concurrent
\* list requests (with or without a category) and seeding calls
NextFail ==
  \/ \E p \in Procs, category \in {None, Men} : StartList(p, category, None)
  \/ \E p \in Procs : StartSeed(p)
  \/ \E p \in Procs : SeedCheck(p)
  \/ \E p \in Procs : SeedInsert(p)
  \/ \E p \in Procs : ListRespond(p)
  \/ ConnectionLost
  \/ ConnectionRestored

SpecFail == InitSeq /\ [][NextFail]_vars

\* ------------------------------------------------------------------ claims
\* Calls that have returned
Completed == started - Cardinality({p \in Procs : pc[p] # "idle"})

\* A list request that has been answered
ListDone(p) == req[p].kind = "list" /\ pc[p] = "idle"

\* A get request that has been answered
GetDone(p) == req[p].kind = "get" /\ pc[p] = "idle"

\* A view without its id
Content(v) == [f \in DOMAIN v \ {"id"} |-> v[f]]

\* Equality of strings up to letter case
EqualFold(s, t) ==
  Len(s) = Len(t) /\ \A i \in 1..Len(s) : Lower(s[i]) = Lower(t[i])

\* s has t as a literal substring, up to letter case
ContainsFold(s, t) ==
  \E i \in 1..(Len(s) - Len(t) + 1) :
    \A k \in 1..Len(t) : Lower(s[i + k - 1]) = Lower(t[k])

\* The content of the Oversized Tee
IsOversizedTee(v) ==
  /\ v.name = TeeName
  /\ v.description = TeeDescription
  /\ v.price = 49
  /\ v.category = Unisex
  /\ v.subcategory = "Tees"
  /\ v.sizes = <<"XS", "S", "M", "L", "XL", "XXL">>
  /\ v.images = TeeImages
  /\ v.stock = 120
  /\ v.tags = TeeTags

\* C1: a get request with a well-formed identifier that no stored document has,
\* against a reachable collection, is answered 404 (not 400, not a view).
C1_AbsentIdIsNotFound ==
  \A p \in Procs : GetDone(p) /\ hist.absent[p] => resp[p].status = 404

\* C2: a stored document without sizes, images, stock and tags is serialized
\* with sizes = [XS,S,M,L,XL,XXL], images = [], stock = 0 and tags = [], in
\* list responses and in get responses.
C2_SerializationDefaults ==
  \A p \in Procs :
    database_available /\ resp[p].status = 200 =>
      \A i \in 1..Len(resp[p].body), j \in 1..Len(store) :
        LET v == resp[p].body[i]
            doc == store[j]
        IN  /\ v.id = OidStr(doc._id)
            /\ DOMAIN doc \cap {"sizes", "images", "stock", "tags"} = {}
            => /\ v.sizes = DefaultSizes
               /\ v.images = <<>>
               /\ v.stock = 0
               /\ v.tags = <<>>

\* C3: every list request is answered 200, whatever the state of the database,
\* also when the handle exists and its operations raise.
C3_ListAlwaysSucceeds ==
  \A p \in Procs : ListDone(p) => resp[p].status = 200

\* C4: without a database handle, a list request is answered with exactly one
\* element, the Oversized Tee, for every category and q, and the collection is
\* not used.
C4_FallbackIgnoresFilters ==
  \A p \in Procs :
    ListDone(p) /\ ~database_available =>
      /\ resp[p].status = 200
      /\ Len(resp[p].body) = 1
      /\ IsOversizedTee(resp[p].body[1])
      /\ ~hist.touched[p]
      /\ store = <<>>

\* C4 witness: two list requests with different filters, both set, were answered
\* from the fallback.
C4_Witness ==
  /\ ~database_available
  /\ \E p1, p2 \in Procs :
       /\ ListDone(p1) /\ ListDone(p2)
       /\ Truthy(req[p1].category) /\ Truthy(req[p1].q)
       /\ Truthy(req[p2].category) /\ Truthy(req[p2].q)
       /\ req[p1].category # req[p2].category
       /\ req[p1].q # req[p2].q

\* A get request answered without a database handle
GetFallbackDone(p) == GetDone(p) /\ ~database_available /\ resp[p].status = 200

\* C5 as stated: without a database handle, any two get responses are equal in
\* every field, the id included.
C5_FallbackViewsIdentical ==
  \A p1, p2 \in Procs :
    GetFallbackDone(p1) /\ GetFallbackDone(p2) => resp[p1].body = resp[p2].body

\* C5 amended: without a database handle, any two get responses are equal in
\* every field except id, and the ids of two calls differ (each call generates
\* a fresh identifier).
C5_FallbackViewsEqualButId ==
  \A p1, p2 \in Procs :
    GetFallbackDone(p1) /\ GetFallbackDone(p2) /\ p1 # p2 =>
      /\ Len(resp[p1].body) = 1 /\ Len(resp[p2].body) = 1
      /\ Content(resp[p1].body[1]) = Content(resp[p2].body[1])
      /\ resp[p1].body[1].id # resp[p2].body[1].id

\* C5 witness: two get requests with different ids were answered from the fallback.
C5_Witness ==
  \E p1, p2 \in Procs :
    /\ GetFallbackDone(p1) /\ GetFallbackDone(p2)
    /\ req[p1].product_id # req[p2].product_id

\* C6: with a database, every view of a list response to a request with a
\* category has that category, up to letter case.
C6_CategoryExactMatch ==
  \A p \in Procs :
    ListDone(p) /\ database_available /\ resp[p].status = 200
      /\ Truthy(req[p].category) =>
      \A i \in 1..Len(resp[p].body) :
        EqualFold(resp[p].body[i].category, req[p].category)

\* C7: with a database, every view of a list response to a request with a q
\* contains q as a literal substring, up to letter case, in its name, its
\* description or one of its tags.
C7_QueryLiteralSubstring ==
  \A p \in Procs :
    ListDone(p) /\ database_available /\ resp[p].status = 200
      /\ Truthy(req[p].q) =>
      \A i \in 1..Len(resp[p].body) :
        LET v == resp[p].body[i]
        IN  \/ ContainsFold(v.name, req[p].q)
            \/ ContainsFold(v.description, req[p].q)
            \/ \E j \in 1..Len(v.tags) : ContainsFold(v.tags[j], req[p].q)

\* The step in which the ensure_seed_data of handler p returns
SeedReturns(p) == pc[p] \in {"seed", "seed_insert"} /\ pc'[p] \in {"list", "idle"}

\* C8: with one call at a time and no failures, ensure_seed_data on an empty
\* collection leaves exactly 3 documents, on a non-empty collection it leaves
\* the documents as they are, and after one or more calls that began with an
\* empty collection there are exactly 3 documents.
C8_SequentialSeedingConverges ==
  [][/\ store # <<>> => store' = store
     /\ \A p \in Procs :
          SeedReturns(p) /\ hist.entry[p] = 0 => count_documents(store') = 3
     /\ hist.initCount = 0 /\ Completed' >= 1 => count_documents(store') = 3]_vars

\* C8 witness: the collection was empty, two calls have returned and there are
\* 3 documents.
C8_Witness ==
  /\ hist.initCount = 0
  /\ Completed >= 2
  /\ \E p \in Procs : pc[p] = "idle" /\ req[p].kind # "none" /\ hist.entry[p] = 3
  /\ count_documents(store) = 3

\* C9: with concurrent calls on an empty collection, the number of documents is
\* always a multiple of 3 and at most 3 per handler; 3 per handler is reached.
C9_SeedCountMultipleOfThree ==
  /\ count_documents(store) % 3 = 0
  /\ count_documents(store) <= 3 * NumProcs

\* C9 witness: every handler saw the empty collection and inserted the seed.
C9_Witness ==
  /\ count_documents(store) = 3 * NumProcs
  /\ \A p \in Procs : hist.entry[p] = 0 /\ req[p].kind \in {"list", "seed"}

\* C10: an exception raised by the count or the insert of ensure_seed_data stays
\* inside it: the call returns normally, no response is produced by it, the
\* collection is as before; and every list request starts with the seeding
\* again, which inserts whenever it finds the reachable collection empty.
C10_SeedFailureSwallowedAndRetried ==
  [][\A p \in Procs :
       /\ pc[p] \in {"seed", "seed_insert"} /\ ~live /\ pc'[p] # pc[p] =>
            /\ store' = store
            /\ resp'[p] = NoResponse
            /\ pc'[p] = AfterSeed(p)
       /\ pc[p] = "idle" /\ pc'[p] # "idle" => pc'[p] = "seed"
       /\ pc[p] = "seed" /\ live /\ store = <<>> /\ pc'[p] # pc[p] =>
            pc'[p] = "seed_insert"]_vars

\* C10 witness: after a swallowed failure and a returned call, a later call found
\* the collection still empty and is about to insert.
C10_Witness ==
  /\ hist.seedRaised
  /\ Completed >= 1
  /\ store = <<>>
  /\ \E p \in Procs : pc[p] = "seed_insert"

=============================================================================
